---- MODULE Spec2Model ----
(***************************************************************************)
(* Model of actalog-benchmark: the concurrent load generator LoadTest,     *)
(* its latency statistics (percentile) and the data it hands to the        *)
(* reporters.                                                              *)
(*                                                                         *)
(* LoadTest (internal/metrics, LoadTest) is modelled at the granularity of *)
(* its shared-memory operations: the poll of ctx.Done(), the request, each *)
(* atomic add, and the append, whose read of the slice (on taking the      *)
(* mutex) and store (on releasing it) are separate steps of a worker.      *)
(* float64 arithmetic is modelled as binary floating point with round to   *)
(* nearest, ties to even, after every operation; the mantissa has MantBits *)
(* bits instead of 53.                                                     *)
(*                                                                         *)
(* Further specifications share the module: PercentileSpec calls           *)
(* percentile on its own, DeltaSpec calls the formatDelta functions of the *)
(* comparison report on their own, CompareSpec runs Comparison.LoadResults *)
(* and Comparison.Report over stored records, SectionSpec calls the        *)
(* helpers of the report that build the rows per key and the threshold     *)
(* alerts, and BenchSpec follows result.Overall through one run of the     *)
(* command line tool.  Each keeps the variables of the others at rest.     *)
(***************************************************************************)
EXTENDS Integers, Sequences, FiniteSets, Bags, TLC

(***************************************************************************)
(* Bounds                                                                  *)
(***************************************************************************)
\* largest value of the `concurrent` argument
MaxConcurrent == 2
\* requests issued in one load test (the deadline normally bounds them)
MaxRequests == 2
\* bits of mantissa of the modelled floating-point format
MantBits == 6

\* elapsed times of one request, in microseconds (time.Since(..).Microseconds())
LatencyUs == {3, 4}

\* `concurrent` arguments: a negative one, zero, and 1..MaxConcurrent
ConcurrentArgs == (-1)..MaxConcurrent

Workers == 1..MaxConcurrent

(***************************************************************************)
(* Floating point: a value is [m, e] standing for m * 2^e, with m = 0      *)
(* (and e = 0) or MantLow <= m < MantHigh.  Only non-negative     *)
(* values occur (latencies, weights, indices).                             *)
(***************************************************************************)
RECURSIVE Pow2(_)
Pow2(n) == IF n <= 0 THEN 1 ELSE 2 * Pow2(n - 1)

\* mantissas of normalized values lie in MantLow .. MantHigh - 1
MantLow == Pow2(MantBits - 1)
MantHigh == Pow2(MantBits)

ZeroF == [m |-> 0, e |-> 0]

\* numerator and denominator of the rational a float stands for
Num(a) == IF a.e >= 0 THEN a.m * Pow2(a.e) ELSE a.m
Den(a) == IF a.e >= 0 THEN 1 ELSE Pow2(-a.e)

\* round num/den * 2^e, with 2^(MantBits-1) <= num/den < 2^MantBits, to an
\* integer mantissa: to nearest, ties to even
RoundMant(num, den, e) ==
    LET q == num \div den
        r == num % den
        up == (2 * r > den) \/ (2 * r = den /\ q % 2 = 1)
        m == IF up THEN q + 1 ELSE q
    IN  IF m = MantHigh THEN [m |-> MantLow, e |-> e + 1]
        ELSE [m |-> m, e |-> e]

\* scale num/den into [2^(MantBits-1), 2^MantBits), then round
RECURSIVE Normalize(_, _, _)
Normalize(num, den, e) ==
    IF (num \div MantHigh) >= den
        THEN Normalize(num, den * 2, e + 1)
    ELSE IF (num \div MantLow) < den
        THEN IF den % 2 = 0 THEN Normalize(num, den \div 2, e - 1)
             ELSE Normalize(num * 2, den, e - 1)
    ELSE RoundMant(num, den, e)

\* the float nearest to the rational num/den (num >= 0, den > 0)
RoundRat(num, den) == IF num = 0 THEN ZeroF ELSE Normalize(num, den, 0)

Max2(a, b) == IF a >= b THEN a ELSE b

\* the element of a one-element set; {F(x) : x \in {e}} evaluates the operand
\* e once, as a float64 operation does
Only(S) == CHOOSE x \in S : TRUE

MulExact(a, b) == RoundRat(Num(a) * Num(b), Den(a) * Den(b))
AddExact(a, b, d) ==
    RoundRat(Num(a) * (d \div Den(a)) + Num(b) * (d \div Den(b)), d)
SubExact(a, b, d) ==
    RoundRat(Num(a) * (d \div Den(a)) - Num(b) * (d \div Den(b)), d)

FMul(x, y) == Only({MulExact(a, b) : a \in {x}, b \in {y}})
FAdd(x, y) ==
    Only({Only({AddExact(a, b, d) : d \in {Max2(Den(a), Den(b))}}) :
            a \in {x}, b \in {y}})
\* x - y for x >= y
FSub(x, y) ==
    Only({Only({SubExact(a, b, d) : d \in {Max2(Den(a), Den(b))}}) :
            a \in {x}, b \in {y}})
\* x / n for an integer n > 0 that the format represents exactly
FDivInt(x, n) == Only({RoundRat(Num(a), Den(a) * n) : a \in {x}})
\* float64(n) for an integer n >= 0
FromInt(n) == RoundRat(n, 1)
\* int(x): truncation
Trunc(x) == Only({Num(a) \div Den(a) : a \in {x}})

\* a <= b on normalized values
FLe(a, b) ==
    IF a.m = 0 THEN TRUE
    ELSE IF b.m = 0 THEN FALSE
    ELSE (a.e < b.e) \/ (a.e = b.e /\ a.m <= b.m)


(***************************************************************************)
(* Statistics                                                              *)
(***************************************************************************)
\* float64(time.Since(requestStart).Microseconds()) / 1000.0
LatencyMs(us) == RoundRat(us, 1000)

\* sort.Float64s: ascending
RECURSIVE InsertSorted(_, _)
InsertSorted(x, s) ==
    IF s = <<>> THEN <<x>>
    ELSE IF FLe(x, Head(s)) THEN <<x>> \o s
    ELSE <<Head(s)>> \o InsertSorted(x, Tail(s))

RECURSIVE SortFloat64sRec(_)
SortFloat64sRec(s) ==
    IF s = <<>> THEN <<>> ELSE InsertSorted(Head(s), SortFloat64sRec(Tail(s)))

\* a sort that leaves the slice as the workers appended it
SortFloat64sUnsorted(s) == s

SortFloat64s(s) == SortFloat64sRec(s)

\* an interpolation that gives the weight to the lower neighbour
InterpolateSwapped(sorted, index, lower) ==
    Only({FAdd(FMul(sorted[lower + 1], weight),
               FMul(sorted[lower + 2], FSub(FromInt(1), weight))) :
            weight \in {FSub(index, FromInt(lower))}})

\* the interpolation of percentile between sorted[lower] and sorted[upper]
Interpolate(sorted, index, lower) ==
    Only({FAdd(FMul(sorted[lower + 1], FSub(FromInt(1), weight)),
               FMul(sorted[lower + 2], weight)) :
            weight \in {FSub(index, FromInt(lower))}})

\* a percentile whose index runs over len(sorted) instead of len(sorted)-1
percentileLenIndex(sorted, p) ==
    IF Len(sorted) = 0 THEN ZeroF
    ELSE Only({Only({IF lower + 1 >= Len(sorted) THEN sorted[Len(sorted)]
                     ELSE Interpolate(sorted, index, lower) :
                        lower \in {Trunc(index)}}) :
                 index \in {FMul(RoundRat(p, 100), FromInt(Len(sorted)))}})

\* percentile(sorted, p), sorted[k] of the code being sorted[k + 1] here
percentile(sorted, p) ==
    IF Len(sorted) = 0 THEN ZeroF
    ELSE Only({Only({IF lower + 1 >= Len(sorted) THEN sorted[Len(sorted)]
                     ELSE Interpolate(sorted, index, lower) :
                        lower \in {Trunc(index)}}) :
                 index \in {FMul(RoundRat(p, 100), FromInt(Len(sorted) - 1))}})

\* var sum float64; for _, l := range latencies { sum += l }
RECURSIVE SumFrom(_, _)
SumFrom(acc, s) == IF s = <<>> THEN acc ELSE SumFrom(FAdd(acc, Head(s)), Tail(s))

\* a result whose minimum starts at a large sentinel instead of zero
ResultSentinel ==
    [TotalRequests |-> 0, Successful |-> 0, Failed |-> 0,
     MinLatencyMs |-> [m |-> MantHigh - 1, e |-> MantBits],
     MaxLatencyMs |-> ZeroF, AvgLatencyMs |-> ZeroF,
     LatencyP50Ms |-> ZeroF, LatencyP95Ms |-> ZeroF, LatencyP99Ms |-> ZeroF]

\* result := &internal.LoadTestResult{...}: every statistic is Go's zero value
ResultZero ==
    [TotalRequests |-> 0, Successful |-> 0, Failed |-> 0,
     MinLatencyMs |-> ZeroF, MaxLatencyMs |-> ZeroF, AvgLatencyMs |-> ZeroF,
     LatencyP50Ms |-> ZeroF, LatencyP95Ms |-> ZeroF, LatencyP99Ms |-> ZeroF]

\* "Calculate latency percentiles" of LoadTest, on the sorted slice
LatencyStats(counts, sorted) ==
    [counts EXCEPT
       !.MinLatencyMs = sorted[1],
       !.MaxLatencyMs = sorted[Len(sorted)],
       !.LatencyP50Ms = percentile(sorted, 50),
       !.LatencyP95Ms = percentile(sorted, 95),
       !.LatencyP99Ms = percentile(sorted, 99),
       !.AvgLatencyMs = FDivInt(SumFrom(ZeroF, sorted), Len(sorted))]

\* "Calculate results" of LoadTest
CalculateResults(total, succ, fail, lats) ==
    LET counts == [ResultZero EXCEPT !.TotalRequests = total,
                                     !.Successful = succ,
                                     !.Failed = fail]
    IN  IF Len(lats) > 0
        THEN Only({LatencyStats(counts, sorted) : sorted \in {SortFloat64s(lats)}})
        ELSE counts

(***************************************************************************)
(* LoadTest: state                                                         *)
(***************************************************************************)
VARIABLES
    concurrent,     \* the `concurrent` argument
    mainpc,         \* LoadTest's own position: "spawn", "calc", "done"
    i,              \* loop variable of "for i := 0; i < concurrent; i++"
    wg,             \* sync.WaitGroup counter
    ctxDone,        \* ctx.Done() of context.WithTimeout is closed
    totalRequests,  \* int64, atomic
    successful,     \* int64, atomic
    failed,         \* int64, atomic
    latencies,      \* []float64
    latencyMu,      \* sync.Mutex: 0 when free, else the worker holding it
    pc,             \* position of every worker goroutine
    served,         \* what the target answers to the worker's request in flight
    resp,           \* what c.Get returned to the worker
    latency,        \* the worker's local `latency`
    buf,            \* the slice value the worker's append has read
    late,           \* history: the signal was raised when the request in flight started
    issued,         \* history: number of requests started
    completedOk,    \* history: requests that returned a 2xx response
    completedBad,   \* history: requests that returned an error or a non-2xx
    samples,        \* history: bag of the latencies measured
    result,         \* the *internal.LoadTestResult
    returned        \* what LoadTest handed to its caller

\* a call of percentile on its own, as the tests make it
VARIABLES
    data,           \* the `sorted` argument
    pArg,           \* the `p` argument
    quantile        \* what the call returned, in a set; {} before it returns

\* a call of formatDelta, formatDeltaSize or formatDeltaRPS on its own
VARIABLES
    deltaKind,      \* which of the three: "time", "size", "rps"
    firstVal,       \* the `first` argument
    lastVal,        \* the `last` argument
    deltaOut        \* the string returned, in a set; {} before the call returns

\* a call of Comparison.Report or Comparison.LoadResults
VARIABLES
    entry,          \* the method called: "Report", "LoadResults"
    records,        \* records[k]: what is stored at jsonPaths[k]
    cmpc,           \* position: "start", "load", "sort", "render", "done"
    results,        \* the `results` slice of LoadResults, then of Report
    readLog,        \* history: the paths handed to os.ReadFile, in order
    err,            \* the error returned
    report          \* the report returned, in a set; {} when none is returned

\* a call of a helper of the report on runs already loaded
VARIABLES
    section,        \* the part called: "endpoints", "frontend", "thresholds"
    runs,           \* the `results` argument
    sectionOut      \* what the call returned, in a set; {} before it returns

\* one benchmark run of the command line tool (run)
VARIABLES
    config,         \* the flags: credentials given, --full, --concurrent
    target,         \* how the target behaves in this run
    phase,          \* position of run: "auth", "connectivity", ..., "done"
    overall         \* result.Overall

percentileVars == <<data, pArg, quantile>>
deltaVars == <<deltaKind, firstVal, lastVal, deltaOut>>
compareVars == <<entry, records, cmpc, results, readLog, err, report>>
sectionVars == <<section, runs, sectionOut>>
benchVars == <<config, target, phase, overall>>
toolVars == <<percentileVars, deltaVars, compareVars, sectionVars, benchVars>>

loadTestVars == <<concurrent, mainpc, i, wg, ctxDone, totalRequests, successful,
                  failed, latencies, latencyMu, pc, served, resp, latency, buf,
                  late, issued, completedOk, completedBad, samples, result,
                  returned>>

vars == <<loadTestVars, toolVars>>

mainVars == <<concurrent, mainpc, i, result, returned>>
counterVars == <<totalRequests, successful, failed>>
historyVars == <<issued, completedOk, completedBad, samples>>
requestVars == <<served, resp, latency, late>>

\* outcomes of one request: a 2xx response, another status, a transport error
Outcomes == {"ok2xx", "non2xx", "err"}

\* no call of percentile is made
PercentileIdle ==
    /\ data = <<>>
    /\ pArg = 0
    /\ quantile = {}

\* no call of a formatDelta function is made
DeltaIdle ==
    /\ deltaKind = "time"
    /\ firstVal = 0
    /\ lastVal = 0
    /\ deltaOut = {}

\* no error
NoError == [op |-> "none", path |-> 0]

\* no call of Report or LoadResults is made
CompareIdle ==
    /\ entry = "Report"
    /\ records = <<>>
    /\ cmpc = "done"
    /\ results = <<>>
    /\ readLog = <<>>
    /\ err = NoError
    /\ report = {}

\* no helper of the report is called
SectionIdle ==
    /\ section = "endpoints"
    /\ runs = <<>>
    /\ sectionOut = {}

\* the command line tool is not run
BenchIdle ==
    /\ config = [auth |-> FALSE, full |-> FALSE, concurrent |-> 1]
    /\ target = [login |-> TRUE, connected |-> TRUE, healthy |-> TRUE,
                 endpoints |-> TRUE,
                 loadTest |-> [Failed |-> 0, TotalRequests |-> 0]]
    /\ phase = "done"
    /\ overall = "pass"

\* LoadTest is entered
LoadTestStart ==
    /\ mainpc = "spawn"
    /\ i = 0
    /\ wg = 0
    /\ ctxDone = FALSE
    /\ totalRequests = 0
    /\ successful = 0
    /\ failed = 0
    /\ latencies = <<>>
    /\ latencyMu = 0
    /\ pc = [w \in Workers |-> "idle"]
    /\ served = [w \in Workers |-> "none"]
    /\ resp = [w \in Workers |-> "none"]
    /\ latency = [w \in Workers |-> ZeroF]
    /\ buf = [w \in Workers |-> <<>>]
    /\ late = [w \in Workers |-> FALSE]
    /\ issued = 0
    /\ completedOk = 0
    /\ completedBad = 0
    /\ samples = EmptyBag
    /\ result = ResultZero
    /\ returned = "pending"

Init ==
    /\ SectionIdle
    /\ BenchIdle
    /\ concurrent \in ConcurrentArgs
    /\ LoadTestStart
    /\ PercentileIdle
    /\ DeltaIdle
    /\ CompareIdle

(***************************************************************************)
(* LoadTest: the main goroutine                                            *)
(***************************************************************************)
\* the timer of context.WithTimeout(ctx, duration) fires
Deadline ==
    /\ ~ctxDone
    /\ mainpc # "done"
    /\ ctxDone' = TRUE
    /\ UNCHANGED toolVars
    /\ UNCHANGED <<mainVars, wg, counterVars, latencies, latencyMu, pc,
                   requestVars, buf, historyVars>>

\* one iteration of the loop: wg.Add(1); go func() {...}()
SpawnWorker ==
    /\ mainpc = "spawn"
    /\ i < concurrent
    /\ wg' = wg + 1
    /\ pc' = [pc EXCEPT ![i + 1] = "select"]
    /\ i' = i + 1
    /\ UNCHANGED toolVars
    /\ UNCHANGED <<concurrent, mainpc, result, returned, ctxDone, counterVars,
                   latencies, latencyMu, requestVars, buf, historyVars>>

\* the loop has ended and wg.Wait() returns
WaitGuardNoJoin == TRUE

WaitGuard == wg = 0

Wait ==
    /\ mainpc = "spawn"
    /\ ~(i < concurrent)
    /\ WaitGuard
    /\ mainpc' = "calc"
    /\ UNCHANGED toolVars
    /\ UNCHANGED <<concurrent, i, result, returned, wg, ctxDone, counterVars,
                   latencies, latencyMu, pc, requestVars, buf, historyVars>>

\* "Calculate results" ... return result
Calculate ==
    /\ mainpc = "calc"
    /\ result' = CalculateResults(totalRequests, successful, failed, latencies)
    /\ returned' = "result"
    /\ mainpc' = "done"
    /\ ctxDone' = TRUE      \* defer cancel()
    /\ UNCHANGED toolVars
    /\ UNCHANGED <<concurrent, i, wg, counterVars, latencies,
                   latencyMu, pc, requestVars, buf, historyVars>>


(***************************************************************************)
(* LoadTest: one worker goroutine                                          *)
(***************************************************************************)
\* requests already started or about to start
Committed == issued + Cardinality({v \in Workers : pc[v] = "get"})

\* a select that takes the default branch whatever ctx.Done() says
SelectDoneIgnored(w) == FALSE

\* the case <-ctx.Done() of the select is ready
SelectDone(w) == ctxDone

\* select { case <-ctx.Done(): return (defer wg.Done()); default: ... }
Select(w) ==
    /\ pc[w] = "select"
    /\ IF SelectDone(w)
         THEN /\ pc' = [pc EXCEPT ![w] = "exited"]
              /\ wg' = wg - 1
         ELSE /\ Committed < MaxRequests
              /\ pc' = [pc EXCEPT ![w] = "get"]
              /\ wg' = wg
    /\ UNCHANGED toolVars
    /\ UNCHANGED <<mainVars, ctxDone, counterVars, latencies, latencyMu,
                   requestVars, buf, historyVars>>

\* requestStart := time.Now(); c.Get(ctx, "/health") sends the request
Get(w) ==
    /\ pc[w] = "get"
    /\ \E o \in Outcomes : served' = [served EXCEPT ![w] = o]
    /\ late' = [late EXCEPT ![w] = ctxDone]
    /\ issued' = issued + 1
    /\ pc' = [pc EXCEPT ![w] = "inflight"]
    /\ UNCHANGED toolVars
    /\ UNCHANGED <<mainVars, wg, ctxDone, counterVars, latencies, latencyMu,
                   resp, latency, buf, completedOk, completedBad, samples>>

\* what c.Get(ctx, ..) returns: the request carries ctx
\* (http.NewRequestWithContext), so a cancelled ctx ends it with an error
GetResult(w) == IF ctxDone THEN "err" ELSE served[w]

\* c.Get returns; latency := float64(time.Since(requestStart).Microseconds()) / 1000.0
Complete(w) ==
    /\ pc[w] = "inflight"
    /\ resp' = [resp EXCEPT ![w] = GetResult(w)]
    /\ \E us \in LatencyUs :
         /\ latency' = [latency EXCEPT ![w] = LatencyMs(us)]
         /\ samples' = samples (+) SetToBag({LatencyMs(us)})
    /\ completedOk' = IF GetResult(w) = "ok2xx" THEN completedOk + 1 ELSE completedOk
    /\ completedBad' = IF GetResult(w) = "ok2xx" THEN completedBad ELSE completedBad + 1
    /\ served' = [served EXCEPT ![w] = "none"]
    /\ late' = [late EXCEPT ![w] = FALSE]
    /\ pc' = [pc EXCEPT ![w] = "addTotal"]
    /\ UNCHANGED toolVars
    /\ UNCHANGED <<mainVars, wg, ctxDone, counterVars, latencies, latencyMu,
                   buf, issued>>

\* atomic.AddInt64(&totalRequests, 1)
AddTotal(w) ==
    /\ pc[w] = "addTotal"
    /\ totalRequests' = totalRequests + 1
    /\ pc' = [pc EXCEPT ![w] = "addOutcome"]
    /\ UNCHANGED toolVars
    /\ UNCHANGED <<mainVars, wg, ctxDone, successful, failed, latencies,
                   latencyMu, requestVars, buf, historyVars>>

\* a tally that counts every response, whatever its status, as successful
NextSuccessfulAnyStatus(r, n) == IF r = "err" THEN n ELSE n + 1

\* a tally that never counts a success
NextSuccessfulNever(r, n) == n

\* the successful counter after a request that returned r
NextSuccessful(r, n) ==
    IF r = "err" THEN n ELSE IF r = "ok2xx" THEN n + 1 ELSE n

\* a tally that counts transport errors only
NextFailedErrOnly(r, n) == IF r = "err" THEN n + 1 ELSE n

\* the failed counter after a request that returned r
NextFailed(r, n) ==
    IF r = "err" THEN n + 1 ELSE IF r = "ok2xx" THEN n ELSE n + 1

\* if err != nil { failed++ } else if 2xx { successful++ } else { failed++ }
AddOutcome(w) ==
    /\ pc[w] = "addOutcome"
    /\ successful' = NextSuccessful(resp[w], successful)
    /\ failed' = NextFailed(resp[w], failed)
    /\ resp' = [resp EXCEPT ![w] = "none"]
    /\ pc' = [pc EXCEPT ![w] = "lock"]
    /\ UNCHANGED toolVars
    /\ UNCHANGED <<mainVars, wg, ctxDone, totalRequests, latencies, latencyMu,
                   served, late, latency, buf, historyVars>>

\* a mutex that never blocks
LockFreeAlways(w) == TRUE

\* the mutex is free
LockFree(w) == latencyMu = 0

\* latencyMu.Lock(); append(latencies, latency) reads the slice ...
Lock(w) ==
    /\ pc[w] = "lock"
    /\ LockFree(w)
    /\ latencyMu' = w
    /\ buf' = [buf EXCEPT ![w] = latencies]
    /\ pc' = [pc EXCEPT ![w] = "append"]
    /\ UNCHANGED toolVars
    /\ UNCHANGED <<mainVars, wg, ctxDone, counterVars, latencies, requestVars,
                   historyVars>>

\* ... latencies = ... stores the extended one; latencyMu.Unlock(), and back
\* to the select
AppendUnlock(w) ==
    /\ pc[w] = "append"
    /\ latencies' = Append(buf[w], latency[w])
    /\ buf' = [buf EXCEPT ![w] = <<>>]
    /\ latency' = [latency EXCEPT ![w] = ZeroF]
    /\ latencyMu' = IF latencyMu = w THEN 0 ELSE latencyMu
    /\ pc' = [pc EXCEPT ![w] = "select"]
    /\ UNCHANGED toolVars
    /\ UNCHANGED <<mainVars, wg, ctxDone, counterVars, served, resp, late,
                   historyVars>>

Worker(w) ==
    \/ Select(w)
    \/ Get(w)
    \/ Complete(w)
    \/ AddTotal(w)
    \/ AddOutcome(w)
    \/ Lock(w)
    \/ AppendUnlock(w)

\* the goroutine that called LoadTest
Main ==
    \/ SpawnWorker
    \/ Wait
    \/ Calculate

Next ==
    \/ Deadline
    \/ Main
    \/ \E w \in Workers : Worker(w)

Spec == Init /\ [][Next]_vars

\* goroutines are scheduled fairly, requests complete, the timer fires
FairSpec ==
    /\ Spec
    /\ WF_vars(Deadline)
    /\ WF_vars(Main)
    /\ \A w \in Workers : WF_vars(Worker(w))

TypeOK ==
    /\ concurrent \in ConcurrentArgs
    /\ mainpc \in {"spawn", "calc", "done"}
    /\ wg \in 0..MaxConcurrent
    /\ latencyMu \in {0} \cup Workers
    /\ totalRequests \in 0..MaxRequests


(***************************************************************************)
(* Properties of LoadTest                                                  *)
(***************************************************************************)
Spawned == {w \in Workers : w <= concurrent}

AllExited == \A w \in Spawned : pc[w] = "exited"

\* C1: when LoadTest has returned, TotalRequests = Successful + Failed,
\* whatever the concurrency, the interleaving and the request outcomes.
C1_TotalIsSum ==
    mainpc = "done" => result.TotalRequests = result.Successful + result.Failed

C1_Witness ==
    /\ mainpc = "done"
    /\ concurrent >= 2
    /\ result.Successful >= 1
    /\ result.Failed >= 1

\* C2 as stated: every request starts in a state where the cancellation
\* signal is not yet raised.
C2_StartsBeforeSignal == \A w \in Workers : pc[w] = "inflight" => ~late[w]

\* C2, amended: a worker whose poll finds the signal raised leaves without
\* starting a request; a request starts after the signal only when the
\* worker's poll came before it.
C2_NoStartAfterSeenSignal ==
    [][\A w \in Workers :
          (pc[w] = "select" /\ ctxDone) => pc'[w] \in {"select", "exited"}]_vars

C2_Witness ==
    /\ mainpc = "spawn"
    /\ ctxDone
    /\ issued >= 1
    /\ \E w \in Workers : pc[w] = "exited"

\* C3: a request in flight when the deadline passes is not aborted by it: the
\* worker records the outcome the target gave the request.
C3_InFlightKeepsOutcome ==
    [][\A w \in Workers :
          (pc[w] = "inflight" /\ ~late[w] /\ pc'[w] = "addTotal")
              => resp'[w] = served[w]]_vars

\* C4: under fair scheduling LoadTest terminates: once the signal is raised
\* every started worker exits, and LoadTest goes past wg.Wait() only when
\* all of them have.
C4_JoinTerminates ==
    /\ <>(mainpc = "done" /\ AllExited)
    /\ [](mainpc # "spawn" => AllExited)

C4_Witness ==
    /\ mainpc = "done"
    /\ concurrent >= 2
    /\ issued >= 2
    /\ AllExited

\* C5: no two workers are inside the append at once, and when the statistics
\* are computed there are as many latency samples as counted requests.
C5_ExclusiveAppend ==
    /\ Cardinality({w \in Workers : pc[w] = "append"}) <= 1
    /\ mainpc # "spawn" => Len(latencies) = totalRequests
    /\ mainpc = "done" => Len(latencies) = result.TotalRequests

C5_Witness ==
    /\ \E w \in Workers : pc[w] = "append" /\ latencyMu = w
    /\ \E v \in Workers : pc[v] = "lock"

\* C6: every request issued is tallied exactly once: successful iff it
\* returned a 2xx response without transport error, failed otherwise, and
\* LoadTest still returns its result.
C6_ExactTally ==
    /\ totalRequests <= issued
    /\ successful <= completedOk
    /\ failed <= completedBad
    /\ mainpc = "done" =>
         /\ returned = "result"
         /\ result.TotalRequests = issued
         /\ result.Successful = completedOk
         /\ result.Failed = completedBad

C6_Witness ==
    /\ mainpc = "done"
    /\ completedOk >= 1
    /\ completedBad >= 1
    /\ returned = "result"

\* C7: whenever TotalRequests > 0 in the result,
\* Min <= P50 <= P95 <= P99 <= Max.
C7_OrderedPercentiles ==
    (mainpc = "done" /\ result.TotalRequests > 0) =>
        /\ FLe(result.MinLatencyMs, result.LatencyP50Ms)
        /\ FLe(result.LatencyP50Ms, result.LatencyP95Ms)
        /\ FLe(result.LatencyP95Ms, result.LatencyP99Ms)
        /\ FLe(result.LatencyP99Ms, result.MaxLatencyMs)

\* the measured latencies in ascending order, built from the bag alone
RECURSIVE BagAscending(_)
BagAscending(B) ==
    IF B = EmptyBag THEN <<>>
    ELSE LET least == CHOOSE x \in BagToSet(B) : \A y \in BagToSet(B) : FLe(x, y)
         IN  <<least>> \o BagAscending(B (-) SetToBag({least}))

\* C8: the result depends only on the multiset of request outcomes and
\* latencies, not on the order in which the workers appended their samples.
C8_OrderInsensitive ==
    mainpc = "done" =>
        result = CalculateResults(completedOk + completedBad, completedOk,
                                  completedBad, BagAscending(samples))

C8_Witness ==
    /\ mainpc = "done"
    /\ \E k \in 1..(Len(latencies) - 1) : ~FLe(latencies[k], latencies[k + 1])

\* C9: LoadTest called with concurrent < 1 reports a configuration error.
C9_RejectsBadConcurrency ==
    (mainpc = "done" /\ concurrent < 1) => returned = "configError"

\* C10: when the result has TotalRequests = 0, every latency statistic is 0.
C10_ZeroStats ==
    (mainpc = "done" /\ result.TotalRequests = 0) =>
        /\ result.MinLatencyMs = ZeroF
        /\ result.MaxLatencyMs = ZeroF
        /\ result.AvgLatencyMs = ZeroF
        /\ result.LatencyP50Ms = ZeroF
        /\ result.LatencyP95Ms = ZeroF
        /\ result.LatencyP99Ms = ZeroF

C10_Witness ==
    /\ mainpc = "done"
    /\ concurrent >= 1
    /\ result.TotalRequests = 0

\* C29: at every point of a load test the recorded samples are at most
\* successful + failed, which is at most totalRequests, and totalRequests
\* exceeds the recorded samples by at most the number of workers (each
\* worker has at most one request counted and not yet recorded).
C29_CountersBracketSamples ==
    /\ Len(latencies) <= successful + failed
    /\ successful + failed <= totalRequests
    /\ totalRequests - Len(latencies) <= Cardinality(Spawned)

\* every worker has counted a request that it has not recorded yet, one of
\* them has not classified it either, and an earlier sample is recorded
C29_Witness ==
    /\ concurrent = MaxConcurrent
    /\ totalRequests - Len(latencies) = concurrent
    /\ successful + failed < totalRequests
    /\ Len(latencies) < successful + failed

(***************************************************************************)
(* percentile called on its own                                            *)
(***************************************************************************)
\* largest number of samples handed to percentile
MaxSamples == 3

\* the samples, as microsecond counts
SampleUs == {0, 3, 4, 1000}

\* the sequences over S of length at most n
BoundedSeq(S, n) == UNION {[1..k -> S] : k \in 0..n}

\* the `sorted` arguments: LoadTest sorts the latencies before the call
SortedArgs ==
    {SortFloat64s(s) : s \in BoundedSeq({LatencyMs(us) : us \in SampleUs}, MaxSamples)}

\* the `p` arguments
PArgs == 0..100

PercentileInit ==
    /\ SectionIdle
    /\ BenchIdle
    /\ concurrent = 0
    /\ LoadTestStart
    /\ DeltaIdle
    /\ CompareIdle
    /\ data \in SortedArgs
    /\ pArg \in PArgs
    /\ quantile = {}

\* result := percentile(tt.data, tt.p)
PercentileCall ==
    /\ quantile = {}
    /\ quantile' = {percentile(data, pArg)}
    /\ UNCHANGED <<data, pArg, deltaVars, compareVars, loadTestVars>>
    /\ UNCHANGED <<sectionVars, benchVars>>

PercentileSpec == PercentileInit /\ [][PercentileCall]_vars

\* the least and the greatest element of a non-empty sequence of floats
MinOf(s) == CHOOSE x \in {s[k] : k \in 1..Len(s)} : \A k \in 1..Len(s) : FLe(x, s[k])
MaxOf(s) == CHOOSE x \in {s[k] : k \in 1..Len(s)} : \A k \in 1..Len(s) : FLe(s[k], x)

\* C11: for every non-empty ascending-sorted x, percentile(x, 0) is the
\* minimum of x and percentile(x, 100) is the maximum of x.
C11_MinAndMax ==
    \A q \in quantile :
        Len(data) > 0 =>
            /\ pArg = 0 => q = MinOf(data)
            /\ pArg = 100 => q = MaxOf(data)

C11_Witness ==
    /\ quantile # {}
    /\ pArg = 0
    /\ Len(data) >= 2
    /\ MinOf(data) # MaxOf(data)

\* the formula of C12 in float64 arithmetic, on the ascending-sorted s
InterpolatedOrderStatistic(s, P) ==
    LET n == Len(s)
        idx == FMul(RoundRat(P, 100), FromInt(n - 1))
        lo == Trunc(idx)
        hi == IF lo + 1 <= n - 1 THEN lo + 1 ELSE n - 1
        w == FSub(idx, FromInt(lo))
    IN  IF n = 0 THEN ZeroF
        ELSE IF n = 1 THEN s[1]
        ELSE FAdd(FMul(s[lo + 1], FSub(FromInt(1), w)), FMul(s[hi + 1], w))

\* C12: percentile(samples, P) is 0 for no sample, the sample itself for a
\* single one, and otherwise samples[lo]*(1-w) + samples[hi]*w with
\* idx = (P/100)*(n-1), lo = floor(idx), hi = min(lo+1, n-1), w = idx - lo.
C12_Interpolates ==
    \A q \in quantile : q = InterpolatedOrderStatistic(data, pArg)

C12_Witness ==
    /\ Len(data) >= 2
    /\ pArg \notin {0, 100}
    /\ \E q \in quantile : q \notin {data[k] : k \in 1..Len(data)}

(***************************************************************************)
(* The comparison report (internal/reporter, Comparison): deltas           *)
(*                                                                         *)
(* A metric value (ms, KB, requests per second) is an integer count of     *)
(* 1/Unit; on such multiples of 2^-7 below 2^20 float64 subtraction and    *)
(* comparison are exact, and no percentage of the values used here falls   *)
(* half way between two printed ones.                                      *)
(***************************************************************************)
Unit == 128

\* a threshold of a tenth for the time metrics
EpsTimeTenth == [num |-> 1, den |-> 10]

\* the float64 literals 0.01 and 0.1 of the comparisons
EpsTime == [num |-> 1, den |-> 100]
EpsSize == [num |-> 1, den |-> 10]
EpsRPS == [num |-> 1, den |-> 10]

\* diff > eps and diff < -eps
Above(diff, eps) == diff * eps.den > eps.num * Unit
Below(diff, eps) == diff * eps.den < -(eps.num * Unit)

\* num/den to the nearest integer, ties to even, as strconv rounds
RoundHalfEven(num, den) ==
    LET q == num \div den
        r == num % den
    IN  IF (2 * r > den) \/ (2 * r = den /\ q % 2 = 1) THEN q + 1 ELSE q

RoundSigned(num, den) ==
    IF num >= 0 THEN RoundHalfEven(num, den) ELSE -RoundHalfEven(-num, den)

\* fmt.Sprintf("%.2f", v): the hundredths printed
Fmt2(v) == RoundSigned(v * 100, Unit)

\* pct := (diff / first) * 100 printed with %.1f: the tenths printed
FmtPct(diff, first) == RoundSigned(diff * 1000, first)

\* the strings returned: "-" and "~0" carry no number
NoData == [mark |-> "-", plus |-> FALSE, value |-> {}, unit |-> "", pct |-> {}]
NoChange == [mark |-> "white", plus |-> FALSE, value |-> {}, unit |-> "", pct |-> {}]

\* a string for a first value of 0 that leaves the last value out
RawDeltaNoValue(mark, v, unit) ==
    [mark |-> mark, plus |-> TRUE, value |-> {}, unit |-> unit, pct |-> {}]

\* Sprintf("<mark> +%.2f<unit>", v) and Sprintf("<mark> %.2f<unit> (%.1f%%)", ..)
RawDelta(mark, v, unit) ==
    [mark |-> mark, plus |-> TRUE, value |-> {Fmt2(v)}, unit |-> unit, pct |-> {}]
PctDelta(mark, plus, diff, unit, first) ==
    [mark |-> mark, plus |-> plus, value |-> {Fmt2(diff)}, unit |-> unit,
     pct |-> {FmtPct(diff, first)}]

\* time (ms): lower is better
formatDelta(last, first) ==
    IF first = 0 /\ last = 0 THEN NoData
    ELSE IF first = 0 THEN RawDelta("red", last, "")
    ELSE LET diff == last - first
         IN  IF Below(diff, EpsTime) THEN PctDelta("green", FALSE, diff, "", first)
             ELSE IF Above(diff, EpsTime) THEN PctDelta("red", TRUE, diff, "", first)
             ELSE NoChange

\* size (KB): lower is better
formatDeltaSize(last, first) ==
    IF first = 0 /\ last = 0 THEN NoData
    ELSE IF first = 0 THEN RawDelta("red", last, " KB")
    ELSE LET diff == last - first
         IN  IF Below(diff, EpsSize) THEN PctDelta("green", FALSE, diff, " KB", first)
             ELSE IF Above(diff, EpsSize) THEN PctDelta("red", TRUE, diff, " KB", first)
             ELSE NoChange

\* requests per second classified as the time metrics are
formatDeltaRPSAsTime(last, first) == formatDelta(last, first)

\* requests per second: higher is better
formatDeltaRPS(last, first) ==
    IF first = 0 /\ last = 0 THEN NoData
    ELSE IF first = 0 THEN RawDelta("green", last, "")
    ELSE LET diff == last - first
         IN  IF Above(diff, EpsRPS) THEN PctDelta("green", TRUE, diff, "", first)
             ELSE IF Below(diff, EpsRPS) THEN PctDelta("red", FALSE, diff, "", first)
             ELSE NoChange

(***************************************************************************)
(* The comparison report: Comparison.LoadResults and Comparison.Report     *)
(***************************************************************************)
\* most paths handed to one call
MaxFiles == 3

\* the Timestamp values of the stored runs
Timestamps == 1..3

\* the load-test sections of the stored runs
LoadTestSections ==
    {[LatencyP95Ms |-> 0, RPS |-> 0],
     [LatencyP95Ms |-> 45 * Unit, RPS |-> 50 * Unit],
     [LatencyP95Ms |-> 600 * Unit, RPS |-> 8 * Unit]}

\* internal.BenchmarkResult; LoadTest is {} for a nil pointer
BenchmarkResults ==
    [Timestamp : Timestamps,
     LoadTest : {{}} \cup {{s} : s \in LoadTestSections}]

\* what a path leads to: no readable file, a file that is not the JSON of a
\* result, or the JSON of a result
Stored ==
    {[kind |-> "unreadable", run |-> {}], [kind |-> "malformed", run |-> {}]}
        \cup {[kind |-> "json", run |-> {r}] : r \in BenchmarkResults}

\* the error of os.ReadFile or json.Unmarshal on the k-th path, wrapped with
\* the path
LoadError(stored, k) ==
    IF stored.kind = "unreadable" THEN [op |-> "read", path |-> k]
    ELSE IF stored.kind = "malformed" THEN [op |-> "parse", path |-> k]
    ELSE NoError

\* a failing load that hands back the runs parsed so far
FailedResultsPartial(loaded) == loaded

\* return nil, fmt.Errorf(..)
FailedResults(loaded) == <<>>

\* results[i].Timestamp.Before(results[j].Timestamp)
Before(a, b) == a.Timestamp < b.Timestamp

\* a sort that leaves the slice in the order of the paths
SortSliceKeepOrder(s) == {s}

\* sort.Slice(results, less): some ascending arrangement; the sort is not
\* stable, so runs with equal timestamps end in any order
SortSlice(s) ==
    LET n == Len(s)
        perms == {f \in [1..n -> 1..n] : \A a, b \in 1..n : a # b => f[a] # f[b]}
        ascending(f) == \A k \in 1..(n - 1) : ~Before(s[f[k + 1]], s[f[k]])
    IN  {[k \in 1..n |-> s[f[k]]] : f \in {g \in perms : ascending(g)}}

\* a precondition that accepts a single file
TooFewNone(n) == n < 1

\* len(jsonPaths) < 2
TooFew(n) == n < 2

\* r.LoadTest.<metric> of a run that has the section
Metric(r, metric) == Only(r.LoadTest)[metric]

\* hasLoadTest
hasLoadTest(rs) == \E k \in 1..Len(rs) : rs[k].LoadTest # {}

\* var first float64, set in the loop only "if i == 0" and the section is there
FirstValue(rs, metric) ==
    IF rs[1].LoadTest # {} THEN Metric(rs[1], metric) ELSE 0

\* var last float64, set in the loop by every run that has the section
LastValue(rs, metric) ==
    LET have == {k \in 1..Len(rs) : rs[k].LoadTest # {}}
    IN  IF have = {} THEN 0
        ELSE Metric(rs[CHOOSE k \in have : \A j \in have : j <= k], metric)

\* the cells of one row: " %.2f |" or " - |"
Cells(rs, metric) ==
    [k \in 1..Len(rs) |->
        IF rs[k].LoadTest # {} THEN {Fmt2(Metric(rs[k], metric))} ELSE {}]

\* the rows "RPS" and "p95 Latency (ms)" of the load test table
RPSRow(rs) ==
    [cells |-> Cells(rs, "RPS"),
     delta |-> formatDeltaRPS(LastValue(rs, "RPS"), FirstValue(rs, "RPS"))]
P95Row(rs) ==
    [cells |-> Cells(rs, "LatencyP95Ms"),
     delta |-> formatDelta(LastValue(rs, "LatencyP95Ms"),
                           FirstValue(rs, "LatencyP95Ms"))]

\* the p95_ms column of "Latency Over Time": p95 := 0.0 unless the section is there
LatencyCSV(rs) ==
    [k \in 1..Len(rs) |->
        Fmt2(IF rs[k].LoadTest # {} THEN Metric(rs[k], "LatencyP95Ms") ELSE 0)]

\* the report: the load test table when some run has the section, and the CSV
Render(rs) ==
    [loadTest |-> IF hasLoadTest(rs)
                    THEN {[rps |-> RPSRow(rs), p95 |-> P95Row(rs)]}
                    ELSE {},
     csv |-> LatencyCSV(rs)]

CompareInit ==
    /\ SectionIdle
    /\ BenchIdle
    /\ concurrent = 0
    /\ LoadTestStart
    /\ PercentileIdle
    /\ DeltaIdle
    /\ entry \in {"Report", "LoadResults"}
    /\ records \in BoundedSeq(Stored, MaxFiles)
    /\ cmpc = IF entry = "Report" THEN "start" ELSE "load"
    /\ results = <<>>
    /\ readLog = <<>>
    /\ err = NoError
    /\ report = {}

\* Report: if len(jsonPaths) < 2 { return "", fmt.Errorf(..) }; c.LoadResults(..)
CheckPaths ==
    /\ cmpc = "start"
    /\ IF TooFew(Len(records))
         THEN /\ err' = [op |-> "precondition", path |-> 0]
              /\ cmpc' = "done"
         ELSE /\ err' = err
              /\ cmpc' = "load"
    /\ UNCHANGED <<entry, records, results, readLog, report>>
    /\ UNCHANGED <<loadTestVars, percentileVars, deltaVars>>
    /\ UNCHANGED <<sectionVars, benchVars>>

\* LoadResults: one iteration of "for _, path := range jsonPaths"
LoadPath ==
    /\ cmpc = "load"
    /\ Len(readLog) < Len(records)
    /\ LET k == Len(readLog) + 1
           e == LoadError(records[k], k)
       IN  /\ readLog' = Append(readLog, k)
           /\ IF e # NoError
                THEN /\ err' = e
                     /\ results' = FailedResults(results)
                     /\ cmpc' = "done"
                ELSE /\ err' = err
                     /\ results' = Append(results, Only(records[k].run))
                     /\ cmpc' = cmpc
    /\ UNCHANGED <<entry, records, report>>
    /\ UNCHANGED <<loadTestVars, percentileVars, deltaVars>>
    /\ UNCHANGED <<sectionVars, benchVars>>

\* LoadResults: sort.Slice(..); return results, nil
SortResults ==
    /\ cmpc = "load"
    /\ Len(readLog) = Len(records)
    /\ results' \in SortSlice(results)
    /\ cmpc' = IF entry = "Report" THEN "render" ELSE "done"
    /\ UNCHANGED <<entry, records, readLog, err, report>>
    /\ UNCHANGED <<loadTestVars, percentileVars, deltaVars>>
    /\ UNCHANGED <<sectionVars, benchVars>>

\* Report: the tables and the CSV; return sb.String(), nil
WriteReport ==
    /\ cmpc = "render"
    /\ report' = {Render(results)}
    /\ cmpc' = "done"
    /\ UNCHANGED <<entry, records, results, readLog, err>>
    /\ UNCHANGED <<loadTestVars, percentileVars, deltaVars>>
    /\ UNCHANGED <<sectionVars, benchVars>>

CompareNext ==
    \/ CheckPaths
    \/ LoadPath
    \/ SortResults
    \/ WriteReport

CompareSpec == CompareInit /\ [][CompareNext]_vars

(***************************************************************************)
(* Properties of LoadResults and Report                                    *)
(***************************************************************************)
\* the paths that lead to no parsable record
BadPaths == {k \in 1..Len(records) : records[k].kind # "json"}

\* LoadResults was called and has returned
LoadReturned ==
    /\ cmpc \in {"render", "done"}
    /\ ~(entry = "Report" /\ Len(records) < 2)

\* the bag of the elements of a sequence
BagOf(s) ==
    [x \in {s[k] : k \in 1..Len(s)} |-> Cardinality({k \in 1..Len(s) : s[k] = x})]

\* C13: a comparison invoked with fewer than 2 runs fails with a
\* precondition error and computes nothing further: no record is read or
\* parsed and no report is produced.
C13_TooFewFails ==
    (entry = "Report" /\ Len(records) < 2) =>
        /\ readLog = <<>>
        /\ results = <<>>
        /\ report = {}
        /\ cmpc \in {"start", "done"}
        /\ cmpc = "done" => err = [op |-> "precondition", path |-> 0]

C13_Witness ==
    /\ entry = "Report"
    /\ Len(records) = 1
    /\ records[1].kind = "json"
    /\ cmpc = "done"
    /\ err.op = "precondition"

\* C14: when every record parses, LoadResults returns exactly the parsed
\* runs, none added or dropped, in ascending order of timestamp, whatever
\* the order of the paths.
C14_SortedPermutation ==
    (LoadReturned /\ BadPaths = {}) =>
        /\ err = NoError
        /\ Len(results) = Len(records)
        /\ BagOf(results) = BagOf([k \in 1..Len(records) |-> Only(records[k].run)])
        /\ \A k \in 1..(Len(results) - 1) :
              results[k].Timestamp <= results[k + 1].Timestamp

C14_Witness ==
    /\ LoadReturned
    /\ BadPaths = {}
    /\ Len(records) = MaxFiles
    /\ \E k \in 1..(Len(records) - 1) :
          Before(Only(records[k + 1].run), Only(records[k].run))

\* C15: if any record cannot be read or parsed, LoadResults returns no run
\* at all and an error that names the offending record, and no comparison
\* is made of the records that did parse.
C15_NoPartialLoad ==
    /\ BadPaths # {} => (cmpc # "render" /\ report = {})
    /\ (LoadReturned /\ BadPaths # {}) =>
          /\ results = <<>>
          /\ err.path = CHOOSE k \in BadPaths : \A j \in BadPaths : k <= j
          /\ err.op = IF records[err.path].kind = "unreadable" THEN "read"
                      ELSE "parse"

C15_Witness ==
    /\ entry = "Report"
    /\ cmpc = "done"
    /\ err.op = "parse"
    /\ err.path = 3
    /\ Len(readLog) = 3

\* the runs with the load test section of run k measured as zero
WithZero(rs, k) ==
    [rs EXCEPT ![k].LoadTest = {[LatencyP95Ms |-> 0, RPS |-> 0]}]

\* C16: the delta of every scalar row over N >= 2 runs is computed from the
\* value in the last run and the value in the first run, never from a run
\* in between: it is the delta of the same row over run 1 and run N alone.
C16_DeltaFromEnds ==
    \A rep \in report : \A tab \in rep.loadTest :
        LET ends == <<results[1], results[Len(results)]>>
        IN  /\ tab.p95.delta = P95Row(ends).delta
            /\ tab.rps.delta = RPSRow(ends).delta

\* C17: a missing section is never treated as the value 0: the delta of a
\* row whose first or last run lacks the section differs from the delta
\* the row has when that run measured 0, and so does the run's CSV line.
C17_AbsentIsNotZero ==
    \A rep \in report :
        /\ \A tab \in rep.loadTest : \A k \in {1, Len(results)} :
              results[k].LoadTest = {} =>
                  /\ tab.p95.delta # P95Row(WithZero(results, k)).delta
                  /\ tab.rps.delta # RPSRow(WithZero(results, k)).delta
        /\ \A k \in 1..Len(results) :
              results[k].LoadTest = {} =>
                  rep.csv[k] # LatencyCSV(WithZero(results, k))[k]

(***************************************************************************)
(* formatDelta, formatDeltaSize and formatDeltaRPS called on their own     *)
(***************************************************************************)
\* the `last` and `first` arguments: 0, values a hundredth and a tenth
\* apart, and whole numbers
MetricValues ==
    {0, 1, 2, 3, 15, 16, 8 * Unit, 45 * Unit, 50 * Unit, 600 * Unit}

DeltaInit ==
    /\ SectionIdle
    /\ BenchIdle
    /\ concurrent = 0
    /\ LoadTestStart
    /\ PercentileIdle
    /\ CompareIdle
    /\ deltaKind \in {"time", "size", "rps"}
    /\ firstVal \in MetricValues
    /\ lastVal \in MetricValues
    /\ deltaOut = {}

\* result := formatDelta(tt.last, tt.first)
CallFormatDelta ==
    /\ deltaKind = "time"
    /\ deltaOut = {}
    /\ deltaOut' = {formatDelta(lastVal, firstVal)}
    /\ UNCHANGED <<deltaKind, firstVal, lastVal>>
    /\ UNCHANGED <<loadTestVars, percentileVars, compareVars>>
    /\ UNCHANGED <<sectionVars, benchVars>>

\* result := formatDeltaSize(tt.last, tt.first)
CallFormatDeltaSize ==
    /\ deltaKind = "size"
    /\ deltaOut = {}
    /\ deltaOut' = {formatDeltaSize(lastVal, firstVal)}
    /\ UNCHANGED <<deltaKind, firstVal, lastVal>>
    /\ UNCHANGED <<loadTestVars, percentileVars, compareVars>>
    /\ UNCHANGED <<sectionVars, benchVars>>

\* result := formatDeltaRPS(tt.last, tt.first)
CallFormatDeltaRPS ==
    /\ deltaKind = "rps"
    /\ deltaOut = {}
    /\ deltaOut' = {formatDeltaRPS(lastVal, firstVal)}
    /\ UNCHANGED <<deltaKind, firstVal, lastVal>>
    /\ UNCHANGED <<loadTestVars, percentileVars, compareVars>>
    /\ UNCHANGED <<sectionVars, benchVars>>

DeltaNext ==
    \/ CallFormatDelta
    \/ CallFormatDeltaSize
    \/ CallFormatDeltaRPS

DeltaSpec == DeltaInit /\ [][DeltaNext]_vars

\* last - first against epsilon = 1/per: above it, below -it, within it
Rose(per) == (lastVal - firstVal) * per > Unit
Fell(per) == (lastVal - firstVal) * per < -Unit
Within(per) == ~Rose(per) /\ ~Fell(per)

\* C18: for a lower-is-better metric with non-zero first value, the delta
\* last - first is 'no change' iff |delta| <= epsilon, an 'improvement' iff
\* delta < -epsilon and a 'regression' iff delta > epsilon, with epsilon
\* 0.01 for time and 0.1 for size; the string shows the delta.
C18_LowerIsBetter ==
    \A d \in deltaOut :
        (deltaKind \in {"time", "size"} /\ firstVal # 0) =>
            LET per == IF deltaKind = "time" THEN 100 ELSE 10
            IN  /\ d.mark = "white" <=> Within(per)
                /\ d.mark = "green" <=> Fell(per)
                /\ d.mark = "red" <=> Rose(per)
                /\ d.mark \in {"white", "green", "red"}
                /\ d.mark # "white" => d.value = {Fmt2(lastVal - firstVal)}

\* p95 45 -> 600 is "red +555.00 (+1233.3%)"
C18_Witness ==
    /\ deltaKind = "time"
    /\ firstVal = 45 * Unit
    /\ lastVal = 600 * Unit
    /\ deltaOut = {[mark |-> "red", plus |-> TRUE, value |-> {55500},
                    unit |-> "", pct |-> {12333}]}

\* C19: for RPS with non-zero first value the classification is inverted:
\* delta = last - first is an 'improvement' iff delta > 0.1, a 'regression'
\* iff delta < -0.1 and 'no change' iff |delta| <= 0.1.
C19_HigherIsBetter ==
    \A d \in deltaOut :
        (deltaKind = "rps" /\ firstVal # 0) =>
            /\ d.mark = "white" <=> Within(10)
            /\ d.mark = "green" <=> Rose(10)
            /\ d.mark = "red" <=> Fell(10)
            /\ d.mark \in {"white", "green", "red"}
            /\ d.mark # "white" => d.value = {Fmt2(lastVal - firstVal)}

\* RPS 50 -> 8 is "red -42.00 (-84.0%)"
C19_Witness ==
    /\ deltaKind = "rps"
    /\ firstVal = 50 * Unit
    /\ lastVal = 8 * Unit
    /\ deltaOut = {[mark |-> "red", plus |-> FALSE, value |-> {-4200},
                    unit |-> "", pct |-> {-840}]}

\* C20 as stated: for time, size and RPS alike, first = 0 and last = 0 is
\* reported as 'no data', and first = 0 with last # 0 as a regression that
\* shows the raw last value and no percentage.
C20_ZeroFirstIsRegression ==
    \A d \in deltaOut :
        firstVal = 0 =>
            IF lastVal = 0 THEN d = NoData
            ELSE /\ d.mark = "red"
                 /\ d.value = {Fmt2(lastVal)}
                 /\ d.pct = {}

\* C20, amended: first = 0 and last = 0 is 'no data' for every kind; first
\* = 0 with last # 0 shows the raw last value and no percentage, as a
\* regression for time and size and as an improvement for RPS.
C20_ZeroFirstByDirection ==
    \A d \in deltaOut :
        firstVal = 0 =>
            IF lastVal = 0 THEN d = NoData
            ELSE /\ d.mark = IF deltaKind = "rps" THEN "green" ELSE "red"
                 /\ d.value = {Fmt2(lastVal)}
                 /\ d.pct = {}

C20_Witness ==
    /\ deltaKind = "rps"
    /\ firstVal = 0
    /\ lastVal = 8 * Unit
    /\ deltaOut = {[mark |-> "green", plus |-> TRUE, value |-> {800},
                    unit |-> "", pct |-> {}]}

(***************************************************************************)
(* The comparison report: rows per key and threshold alerts                *)
(*                                                                         *)
(* The helpers of Report that work on the loaded runs are called on their  *)
(* own: the endpoint table, the list of asset keys and checkThresholds.    *)
(***************************************************************************)
EndpointPaths == {"/api/a", "/api/b", "/api/c"}
AssetPaths == {"/assets/app.css", "/assets/app.js"}

\* the place of a key in the byte order of Go strings ('/' < 'i')
ByteRank ==
    [p \in EndpointPaths \cup AssetPaths \cup {"index.html"} |->
        CASE p = "/api/a" -> 1
          [] p = "/api/b" -> 2
          [] p = "/api/c" -> 3
          [] p = "/assets/app.css" -> 4
          [] p = "/assets/app.js" -> 5
          [] p = "index.html" -> 6]

\* the elements of a sequence
Range(s) == {s[k] : k \in DOMAIN s}

\* inserts p into the ascending list s
InsertString(s, p) ==
    LET n == Cardinality({j \in DOMAIN s : ByteRank[s[j]] <= ByteRank[p]})
    IN SubSeq(s, 1, n) \o <<p>> \o SubSeq(s, n + 1, Len(s))

\* a sort that leaves the list as it is
SortStringsKeepOrder(paths) == paths

\* sort.Strings(paths)
RECURSIVE SortStrings(_)
SortStrings(paths) ==
    IF paths = <<>> THEN <<>>
    ELSE InsertString(SortStrings(Tail(paths)), Head(paths))

\* if !pathSet[p] { pathSet[p] = true; paths = append(paths, p) }, for each
\* p of new in turn
RECURSIVE AppendNew(_, _)
AppendNew(paths, new) ==
    IF new = <<>> THEN paths
    ELSE AppendNew(IF Head(new) \in Range(paths) THEN paths
                   ELSE Append(paths, Head(new)),
                   Tail(new))

\* the Path of each entry, in order
PathsOf(entries) == [k \in DOMAIN entries |-> entries[k].Path]

\* for _, r := range results { for _, ep := range r.Endpoints { .. } }
RECURSIVE EndpointPathsFrom(_, _)
EndpointPathsFrom(paths, rs) ==
    IF rs = <<>> THEN paths
    ELSE EndpointPathsFrom(AppendNew(paths, PathsOf(Head(rs).Endpoints)),
                           Tail(rs))

collectEndpointPaths(rs) == SortStrings(EndpointPathsFrom(<<>>, rs))

\* a lookup that reports the zero value as found when the run has no entry
getEndpointResponseTimeZero(r, path) ==
    LET hits == {k \in DOMAIN r.Endpoints : r.Endpoints[k].Path = path}
    IN IF hits = {} THEN {0}
       ELSE {r.Endpoints[CHOOSE k \in hits : \A j \in hits : k <= j].ResponseMs}

\* (ep.ResponseMs, true) of the first entry with the path, {} for (0, false)
getEndpointResponseTime(r, path) ==
    LET hits == {k \in DOMAIN r.Endpoints : r.Endpoints[k].Path = path}
    IN IF hits = {} THEN {}
       ELSE {r.Endpoints[CHOOSE k \in hits : \A j \in hits : k <= j].ResponseMs}

\* one row of the endpoint table: a cell per run, {} for " - ", and the
\* delta column, {} for " - "; firstVal is set by the first run where the
\* lookup finds the path, lastVal by the last one
EndpointRow(rs, path) ==
    LET found == [k \in DOMAIN rs |-> getEndpointResponseTime(rs[k], path)]
        has == {k \in DOMAIN rs : found[k] # {}}
        first == CHOOSE k \in has : \A j \in has : k <= j
        last == CHOOSE k \in has : \A j \in has : j <= k
    IN [path |-> path,
        cells |-> [k \in DOMAIN rs |->
                      IF found[k] = {} THEN {} ELSE {Fmt2(Only(found[k]))}],
        delta |-> IF has = {} THEN {}
                  ELSE {formatDelta(Only(found[last]), Only(found[first]))}]

\* the "API Endpoint Performance" table of Report
EndpointTable(rs) ==
    LET endpointPaths == collectEndpointPaths(rs)
    IN [paths |-> endpointPaths,
        rows |-> [k \in DOMAIN endpointPaths |->
                     EndpointRow(rs, endpointPaths[k])]]

\* the keys of a frontend section with "index.html" after the assets
AssetKeysIndexLast(frontend) ==
    PathsOf(frontend.Assets)
        \o (IF frontend.IndexHTML # {} THEN <<"index.html">> ELSE <<>>)

\* the keys one frontend section adds: "index.html" if IndexHTML != nil,
\* then the Path of each asset
AssetKeys(frontend) ==
    (IF frontend.IndexHTML # {} THEN <<"index.html">> ELSE <<>>)
        \o PathsOf(frontend.Assets)

\* for _, r := range results { if r.Frontend == nil { continue } .. }
RECURSIVE AssetPathsFrom(_, _)
AssetPathsFrom(paths, rs) ==
    IF rs = <<>> THEN paths
    ELSE AssetPathsFrom(IF Head(rs).Frontend = {} THEN paths
                        ELSE AppendNew(paths, AssetKeys(Only(Head(rs).Frontend))),
                        Tail(rs))

\* returns the keys in the order of their first appearance
collectAssetPaths(rs) == AssetPathsFrom(<<>>, rs)

\* DefaultThresholds()
DefaultThresholds ==
    [LatencyP95MaxMs |-> 500 * Unit,
     LatencyP99MaxMs |-> 1000 * Unit,
     ErrorRateMaxPct |-> [num |-> 1, den |-> 1],
     RPSMinimum |-> 10 * Unit,
     HealthResponseMax |-> 100 * Unit]

\* an error rate that alerts on reaching the threshold
ErrorRateAtLeast(nFailed, nTotal, maxPct) ==
    nFailed * 100 * maxPct.den >= maxPct.num * nTotal

\* float64(Failed) / float64(TotalRequests) * 100 > maxPct; on the
\* counts used here the float64 quotient times 100 compares with the
\* threshold as the exact value does
ErrorRateAbove(nFailed, nTotal, maxPct) ==
    nFailed * 100 * maxPct.den > maxPct.num * nTotal

\* zero or one alert of a rule for run n
Alert(n, r, rule, violated) ==
    IF violated THEN <<[run |-> n, Timestamp |-> r.Timestamp, rule |-> rule]>>
    ELSE <<>>

\* if r.Health != nil && r.Health.ResponseMs > c.thresholds.HealthResponseMax
HealthAlerts(th, n, r) ==
    Alert(n, r, "health",
          r.Health # {} /\ Only(r.Health).ResponseMs > th.HealthResponseMax)

\* the four rules on a load test section, in the order of the code
SectionAlerts(th, n, r, lt) ==
    Alert(n, r, "p95", lt.LatencyP95Ms > th.LatencyP95MaxMs)
    \o Alert(n, r, "p99", lt.LatencyP99Ms > th.LatencyP99MaxMs)
    \o Alert(n, r, "errorRate",
             lt.TotalRequests > 0
             /\ ErrorRateAbove(lt.Failed, lt.TotalRequests, th.ErrorRateMaxPct))
    \o Alert(n, r, "rps", lt.RPS < th.RPSMinimum)

\* the zero value of LoadTestResult
ZeroLoadTest ==
    [LatencyP95Ms |-> 0, LatencyP99Ms |-> 0, Failed |-> 0,
     TotalRequests |-> 0, RPS |-> 0]

\* rules that read a missing section as its zero value
LoadTestAlertsOfZeroValue(th, n, r) ==
    SectionAlerts(th, n, r,
                  IF r.LoadTest = {} THEN ZeroLoadTest ELSE Only(r.LoadTest))

\* if r.LoadTest != nil { .. }
LoadTestAlerts(th, n, r) ==
    IF r.LoadTest = {} THEN <<>>
    ELSE SectionAlerts(th, n, r, Only(r.LoadTest))

\* the alerts of a run with the load test rules ahead of the health rule
RunAlertsHealthLast(th, n, r) ==
    LoadTestAlerts(th, n, r) \o HealthAlerts(th, n, r)

\* one pass of the loop of checkThresholds
RunAlerts(th, n, r) == HealthAlerts(th, n, r) \o LoadTestAlerts(th, n, r)

\* alerts of the runs from the n-th on, appended to alerts
RECURSIVE AlertsFrom(_, _, _, _)
AlertsFrom(alerts, th, n, rs) ==
    IF n > Len(rs) THEN alerts
    ELSE AlertsFrom(alerts \o RunAlerts(th, n, rs[n]), th, n + 1, rs)

checkThresholds(th, rs) == AlertsFrom(<<>>, th, 1, rs)

(***************************************************************************)
(* The helpers called on their own                                         *)
(***************************************************************************)
\* lists of at most two different entries
Lists(S) ==
    {<<>>} \cup {<<e>> : e \in S}
           \cup {<<d[1], d[2]>> : d \in {c \in S \X S : c[1] # c[2]}}

\* internal.EndpointResult
EndpointResults ==
    {[Path |-> "/api/a", ResponseMs |-> 0],
     [Path |-> "/api/a", ResponseMs |-> 45 * Unit],
     [Path |-> "/api/b", ResponseMs |-> 45 * Unit],
     [Path |-> "/api/c", ResponseMs |-> 600 * Unit]}

\* internal.FrontendResult; IndexHTML is {} for a nil pointer
FrontendResults ==
    [IndexHTML : {{}, {[Path |-> "index.html"]}},
     Assets : Lists({[Path |-> p] : p \in AssetPaths})]

\* internal.HealthResult: none, at the threshold and just above it
HealthResults ==
    {[ResponseMs |-> v] :
        v \in {DefaultThresholds.HealthResponseMax,
               DefaultThresholds.HealthResponseMax + 1}}

\* internal.LoadTestResult: each metric at its threshold or just beyond it,
\* with none, one or all four of the rules violated, and the zero value
LoadTestResults ==
    LET th == DefaultThresholds
        all == [LatencyP95Ms : {th.LatencyP95MaxMs, th.LatencyP95MaxMs + 1},
                LatencyP99Ms : {th.LatencyP99MaxMs, th.LatencyP99MaxMs + 1},
                Failed : {1, 2},
                TotalRequests : {100},
                RPS : {th.RPSMinimum - 1, th.RPSMinimum}]
    IN {lt \in all : Len(SectionAlerts(th, 1, [Timestamp |-> 1], lt))
                        \in {0, 1, 4}}
       \cup {ZeroLoadTest}

\* the sections of a run that a helper reads; the others are left out.  A
\* run checked against the thresholds has one of the two sections, or none,
\* or both with no rule violated, or both with every rule violated
RunSections(kind) ==
    LET th == DefaultThresholds
        alerts(s) == Len(RunAlerts(th, 1,
                        [Timestamp |-> 1, Health |-> s.Health,
                         LoadTest |-> s.LoadTest]))
    IN {s \in [Health : IF kind = "thresholds"
                        THEN {{}} \cup {{h} : h \in HealthResults} ELSE {{}},
               Endpoints : IF kind = "endpoints"
                           THEN Lists(EndpointResults) ELSE {<<>>},
               Frontend : IF kind = "frontend"
                          THEN {{}} \cup {{f} : f \in FrontendResults}
                          ELSE {{}},
               LoadTest : IF kind = "thresholds"
                          THEN {{}} \cup {{lt} : lt \in LoadTestResults}
                          ELSE {{}}] :
          \/ s.Health = {}
          \/ s.LoadTest = {}
          \/ alerts(s) \in {0, 5}}

\* the runs as LoadResults returns them, oldest first
RunLists(kind) ==
    {[k \in DOMAIN ss |->
        [Timestamp |-> k, Health |-> ss[k].Health,
         Endpoints |-> ss[k].Endpoints, Frontend |-> ss[k].Frontend,
         LoadTest |-> ss[k].LoadTest]] :
     ss \in UNION {[1..n -> RunSections(kind)] : n \in 1..MaxFiles}}

SectionInit ==
    /\ BenchIdle
    /\ concurrent = 0
    /\ LoadTestStart
    /\ PercentileIdle
    /\ DeltaIdle
    /\ CompareIdle
    /\ section \in {"endpoints", "frontend", "thresholds"}
    /\ runs \in RunLists(section)
    /\ sectionOut = {}

\* Report writes the endpoint table
CallEndpointTable ==
    /\ section = "endpoints"
    /\ sectionOut = {}
    /\ sectionOut' = {EndpointTable(runs)}
    /\ UNCHANGED <<section, runs>>
    /\ UNCHANGED <<loadTestVars, percentileVars, deltaVars, compareVars,
                   benchVars>>

\* assetPaths := collectAssetPaths(results)
CallCollectAssetPaths ==
    /\ section = "frontend"
    /\ sectionOut = {}
    /\ sectionOut' = {collectAssetPaths(runs)}
    /\ UNCHANGED <<section, runs>>
    /\ UNCHANGED <<loadTestVars, percentileVars, deltaVars, compareVars,
                   benchVars>>

\* alerts := c.checkThresholds(results)
CallCheckThresholds ==
    /\ section = "thresholds"
    /\ sectionOut = {}
    /\ sectionOut' = {checkThresholds(DefaultThresholds, runs)}
    /\ UNCHANGED <<section, runs>>
    /\ UNCHANGED <<loadTestVars, percentileVars, deltaVars, compareVars,
                   benchVars>>

SectionNext ==
    \/ CallEndpointTable
    \/ CallCollectAssetPaths
    \/ CallCheckThresholds

SectionSpec == SectionInit /\ [][SectionNext]_vars

(***************************************************************************)
(* Properties of the rows per key                                          *)
(***************************************************************************)
\* the endpoint paths that run r reports
EndpointsOf(r) == {ep.Path : ep \in Range(r.Endpoints)}

\* the asset keys that run r reports
AssetsOf(r) ==
    IF r.Frontend = {} THEN {}
    ELSE LET frontend == Only(r.Frontend)
         IN {"index.html" : x \in frontend.IndexHTML}
            \cup {a.Path : a \in Range(frontend.Assets)}

\* s lists the elements of S, each of them once
ListsOnce(s, S) == Range(s) = S /\ Len(s) = Cardinality(S)

\* s is in strictly ascending byte order
AscendingStrings(s) ==
    \A a, b \in DOMAIN s : a < b => ByteRank[s[a]] < ByteRank[s[b]]

EndpointTableReturned == section = "endpoints" /\ sectionOut # {}

AssetPathsReturned == section = "frontend" /\ sectionOut # {}

\* C21: the endpoint key list is the union of the endpoint paths of the runs,
\* each path once, in ascending lexicographic order (and so a function of
\* the set of paths alone, whatever their order in a run and whichever run
\* reports them).
C21_SortedUnionOfPaths ==
    EndpointTableReturned =>
        LET paths == Only(sectionOut).paths
        IN /\ ListsOnce(paths, UNION {EndpointsOf(runs[k]) : k \in DOMAIN runs})
           /\ AscendingStrings(paths)

\* three paths met in descending order, one of them in two runs
C21_Witness ==
    /\ EndpointTableReturned
    /\ Len(runs) = 2
    /\ PathsOf(runs[1].Endpoints) = <<"/api/c", "/api/a">>
    /\ PathsOf(runs[2].Endpoints) = <<"/api/b", "/api/a">>
    /\ Only(sectionOut).paths = <<"/api/a", "/api/b", "/api/c">>

\* C22: each row has one cell per run, in run order: a value of the run for
\* the key when the run reports the key, and the placeholder, which is not
\* the cell of a measured 0, exactly when the run does not report it.
C22_OneCellPerRun ==
    EndpointTableReturned =>
        LET table == Only(sectionOut)
        IN \A k \in DOMAIN table.rows :
            LET row == table.rows[k]
            IN /\ row.path = table.paths[k]
               /\ DOMAIN row.cells = DOMAIN runs
               /\ \A j \in DOMAIN runs :
                    /\ row.cells[j] = {} <=> row.path \notin EndpointsOf(runs[j])
                    /\ row.cells[j] # {} =>
                         \E ep \in Range(runs[j].Endpoints) :
                            /\ ep.Path = row.path
                            /\ row.cells[j] = {Fmt2(ep.ResponseMs)}

\* a row with the placeholder for one run and a measured 0.00 for another
C22_Witness ==
    /\ EndpointTableReturned
    /\ \E k \in DOMAIN Only(sectionOut).rows :
        LET cells == Only(sectionOut).rows[k].cells
        IN /\ Len(cells) = MaxFiles
           /\ cells[1] = {}
           /\ cells[2] = {0}
           /\ cells[3] = {45 * 100}

\* C23: a row has a delta only when both the first run and the last run
\* report the key; when either of them lacks it the row has no delta.
C23_DeltaNeedsBothEnds ==
    EndpointTableReturned =>
        \A k \in DOMAIN Only(sectionOut).rows :
            LET row == Only(sectionOut).rows[k]
            IN row.delta # {} <=>
                  /\ row.path \in EndpointsOf(runs[1])
                  /\ row.path \in EndpointsOf(runs[Len(runs)])

\* C24: the asset key list is the union of the asset keys of the runs in
\* ascending lexicographic order, whatever the order of runs and assets.
C24_SortedUnionOfAssets ==
    AssetPathsReturned =>
        LET paths == Only(sectionOut)
        IN /\ ListsOnce(paths, UNION {AssetsOf(runs[k]) : k \in DOMAIN runs})
           /\ AscendingStrings(paths)

\* the runs that have a frontend section
WithFrontend == {k \in DOMAIN runs : runs[k].Frontend # {}}

\* C28 as claimed: every asset key met is listed once, and index.html is
\* first whenever any run reports an index.html.
C28_IndexFirstIfAnyRun ==
    AssetPathsReturned =>
        LET paths == Only(sectionOut)
            seen == UNION {AssetsOf(runs[k]) : k \in DOMAIN runs}
        IN /\ ListsOnce(paths, seen)
           /\ "index.html" \in seen => paths[1] = "index.html"

\* C28: every asset key met is listed once, and index.html is first
\* whenever the first run that has a frontend section reports an index.html.
C28_IndexFirstIfFirstFrontend ==
    AssetPathsReturned =>
        LET paths == Only(sectionOut)
            seen == UNION {AssetsOf(runs[k]) : k \in DOMAIN runs}
        IN /\ ListsOnce(paths, seen)
           /\ \A k \in WithFrontend :
                /\ \A j \in WithFrontend : k <= j
                /\ "index.html" \in AssetsOf(runs[k])
                => paths[1] = "index.html"

\* the first run has no frontend section, the next reports index.html and an
\* asset, the last the same asset and one more
C28_Witness ==
    /\ AssetPathsReturned
    /\ Len(runs) = MaxFiles
    /\ runs[1].Frontend = {}
    /\ AssetsOf(runs[2]) = {"index.html", "/assets/app.js"}
    /\ AssetsOf(runs[3]) = {"/assets/app.js", "/assets/app.css"}
    /\ Only(sectionOut) = <<"index.html", "/assets/app.js", "/assets/app.css">>

(***************************************************************************)
(* Properties of checkThresholds                                           *)
(***************************************************************************)
Rules == {"health", "p95", "p99", "errorRate", "rps"}

\* the rules that need the load test section
LoadTestRules == Rules \ {"health"}

AlertsReturned == section = "thresholds" /\ sectionOut # {}

\* the alerts of rule for the n-th run, as places in the list returned
AlertsOf(n, rule) ==
    {a \in DOMAIN Only(sectionOut) :
        Only(sectionOut)[a].run = n /\ Only(sectionOut)[a].rule = rule}

\* run r violates rule: its metric is strictly beyond the threshold
Violates(r, rule) ==
    LET th == DefaultThresholds
    IN CASE rule = "health" ->
              \E h \in r.Health : h.ResponseMs > th.HealthResponseMax
         [] rule = "p95" ->
              \E lt \in r.LoadTest : lt.LatencyP95Ms > th.LatencyP95MaxMs
         [] rule = "p99" ->
              \E lt \in r.LoadTest : lt.LatencyP99Ms > th.LatencyP99MaxMs
         [] rule = "errorRate" ->
              \E lt \in r.LoadTest :
                 lt.Failed * 100 * th.ErrorRateMaxPct.den
                    > th.ErrorRateMaxPct.num * lt.TotalRequests
         [] rule = "rps" ->
              \E lt \in r.LoadTest : lt.RPS < th.RPSMinimum

\* C25: each run gets exactly one alert for each of the five rules it
\* violates (health response, p95, p99 and error rate above their maximum,
\* RPS below its minimum, all strictly) and none for a rule it satisfies;
\* the rules are independent, and a run that violates all five gets five.
C25_OneAlertPerViolation ==
    AlertsReturned =>
        /\ \A n \in DOMAIN runs : \A rule \in Rules :
              Cardinality(AlertsOf(n, rule))
                 = IF Violates(runs[n], rule) THEN 1 ELSE 0
        /\ \A a \in DOMAIN Only(sectionOut) :
              /\ Only(sectionOut)[a].run \in DOMAIN runs
              /\ Only(sectionOut)[a].rule \in Rules

\* one run violates all five rules and gets five alerts, one violates the
\* error rate rule alone, and one sits on every threshold and gets none
C25_Witness ==
    /\ AlertsReturned
    /\ Len(runs) = MaxFiles
    /\ \A rule \in Rules : Violates(runs[1], rule)
    /\ {rule \in Rules : Violates(runs[2], rule)} = {"errorRate"}
    /\ runs[3].Health = {[ResponseMs |-> DefaultThresholds.HealthResponseMax]}
    /\ \E lt \in runs[3].LoadTest :
          /\ lt.LatencyP95Ms = DefaultThresholds.LatencyP95MaxMs
          /\ lt.RPS = DefaultThresholds.RPSMinimum
          /\ lt.Failed = 1
    /\ Len(Only(sectionOut)) = 6

\* C26: a run without a health section raises no health alert, and a run
\* without a load test section raises no p95, p99, error rate or RPS alert.
C26_NoSectionNoAlert ==
    AlertsReturned =>
        \A n \in DOMAIN runs :
            /\ runs[n].Health = {} => AlertsOf(n, "health") = {}
            /\ runs[n].LoadTest = {} =>
                  \A rule \in LoadTestRules : AlertsOf(n, rule) = {}

\* a run with neither section between two runs that raise alerts, one of
\* them with a health section only and one with a load test section only
C26_Witness ==
    /\ AlertsReturned
    /\ Len(runs) = MaxFiles
    /\ runs[1].LoadTest = {} /\ AlertsOf(1, "health") # {}
    /\ runs[2].Health = {} /\ runs[2].LoadTest = {}
    /\ runs[3].Health = {} /\ AlertsOf(3, "rps") # {}
    /\ Len(Only(sectionOut)) = 2

\* the place of a rule in the order health, p95, p99, error rate, RPS
RuleRank ==
    [rule \in Rules |->
        CASE rule = "health" -> 1
          [] rule = "p95" -> 2
          [] rule = "p99" -> 3
          [] rule = "errorRate" -> 4
          [] rule = "rps" -> 5]

\* C27: the alerts are ordered by run, oldest run first, and inside a run by
\* rule: health, p95, p99, error rate, RPS; no alert of an earlier run
\* follows an alert of a later one.
C27_AlertsInRunAndRuleOrder ==
    AlertsReturned =>
        LET alerts == Only(sectionOut)
        IN \A a, b \in DOMAIN alerts :
              a < b =>
                 /\ alerts[a].run <= alerts[b].run
                 /\ alerts[a].Timestamp <= alerts[b].Timestamp
                 /\ alerts[a].run = alerts[b].run =>
                       RuleRank[alerts[a].rule] < RuleRank[alerts[b].rule]

\* the first and the last run raise all five alerts
C27_Witness ==
    /\ AlertsReturned
    /\ Len(runs) = MaxFiles
    /\ [a \in DOMAIN Only(sectionOut) |-> Only(sectionOut)[a].rule]
          = <<"health", "p95", "p99", "errorRate", "rps",
              "health", "p95", "p99", "errorRate", "rps">>
    /\ Only(sectionOut)[5].Timestamp < Only(sectionOut)[6].Timestamp
    /\ Only(sectionOut)[6].run = MaxFiles

(***************************************************************************)
(* One benchmark run of the command line tool (cmd/actalog-bench, run)     *)
(***************************************************************************)
\* the flags that decide which phases run: --user and --pass given, --full,
\* --concurrent
Configs == [auth : BOOLEAN, full : BOOLEAN, concurrent : ConcurrentArgs]

\* the Failed and TotalRequests that LoadTest may return
LoadTestCounts ==
    {[Failed |-> 0, TotalRequests |-> 0],
     [Failed |-> 0, TotalRequests |-> 100],
     [Failed |-> 1, TotalRequests |-> 100],
     [Failed |-> 2, TotalRequests |-> 100]}

\* what the target does in this run: Login succeeds, the connection is made,
\* /health says "healthy", every endpoint answers with success, and the
\* counts of the load test
Targets ==
    [login : BOOLEAN, connected : BOOLEAN, healthy : BOOLEAN,
     endpoints : BOOLEAN, loadTest : LoadTestCounts]

\* httpClient.IsAuthenticated()
IsAuthenticated == config.auth /\ target.login

BenchInit ==
    /\ SectionIdle
    /\ concurrent = 0
    /\ LoadTestStart
    /\ PercentileIdle
    /\ DeltaIdle
    /\ CompareIdle
    /\ config \in Configs
    /\ target \in Targets
    /\ phase = "auth"
    /\ overall = "pass"

\* if config.User != "" && config.Pass != "" { if err := Login(..) { .. } }
Authenticate ==
    /\ phase = "auth"
    /\ IF config.auth /\ ~target.login
       THEN overall' = "fail" /\ phase' = "done"
       ELSE overall' = overall /\ phase' = "connectivity"
    /\ UNCHANGED <<config, target>>
    /\ UNCHANGED <<loadTestVars, percentileVars, deltaVars, compareVars,
                   sectionVars>>

\* Phase 1: if !result.Connectivity.Connected { result.Overall = "fail" }
MeasureConnectivity ==
    /\ phase = "connectivity"
    /\ overall' = IF ~target.connected THEN "fail" ELSE overall
    /\ phase' = "health"
    /\ UNCHANGED <<config, target>>
    /\ UNCHANGED <<loadTestVars, percentileVars, deltaVars, compareVars,
                   sectionVars>>

\* Phase 2: if result.Health.Status != "healthy" { result.Overall = "fail" }
CheckHealth ==
    /\ phase = "health"
    /\ overall' = IF ~target.healthy THEN "fail" ELSE overall
    /\ phase' = "endpoints"
    /\ UNCHANGED <<config, target>>
    /\ UNCHANGED <<loadTestVars, percentileVars, deltaVars, compareVars,
                   sectionVars>>

\* Phase 3: if config.Full || IsAuthenticated() { .. if !ep.Success {
\* result.Overall = "degraded" } }
BenchmarkEndpoints ==
    /\ phase = "endpoints"
    /\ overall' = IF (config.full \/ IsAuthenticated) /\ ~target.endpoints
                  THEN "degraded" ELSE overall
    /\ phase' = "loadTest"
    /\ UNCHANGED <<config, target>>
    /\ UNCHANGED <<loadTestVars, percentileVars, deltaVars, compareVars,
                   sectionVars>>

\* errorRate := float64(Failed) / float64(TotalRequests); errorRate > 0.01
ErrorRateOverOnePercent(lt) == lt.Failed * 100 > lt.TotalRequests

\* Phase 4: if config.Concurrent > 1 || (config.Full && config.Concurrent == 1)
\* { .. if Failed > 0 { if errorRate > 0.01 { result.Overall = "degraded" } } }
RunLoadTest ==
    /\ phase = "loadTest"
    /\ overall' =
          IF /\ config.concurrent > 1 \/ (config.full /\ config.concurrent = 1)
             /\ target.loadTest.Failed > 0
             /\ ErrorRateOverOnePercent(target.loadTest)
          THEN "degraded" ELSE overall
    /\ phase' = "output"
    /\ UNCHANGED <<config, target>>
    /\ UNCHANGED <<loadTestVars, percentileVars, deltaVars, compareVars,
                   sectionVars>>

\* outputResults(result, config); return nil
OutputResults ==
    /\ phase = "output"
    /\ phase' = "done"
    /\ UNCHANGED <<config, target, overall>>
    /\ UNCHANGED <<loadTestVars, percentileVars, deltaVars, compareVars,
                   sectionVars>>

BenchNext ==
    \/ Authenticate
    \/ MeasureConnectivity
    \/ CheckHealth
    \/ BenchmarkEndpoints
    \/ RunLoadTest
    \/ OutputResults

BenchSpec == BenchInit /\ [][BenchNext]_vars

\* how bad a status is
StatusRank ==
    [s \in {"pass", "degraded", "fail"} |->
        CASE s = "pass" -> 0 [] s = "degraded" -> 1 [] s = "fail" -> 2]

\* C30: during a run Overall only worsens, pass -> degraded -> fail: once a
\* connectivity or health failure has set it to "fail", no later endpoint
\* failure or load test error rate above 1% replaces it with "degraded".
C30_OverallOnlyWorsens ==
    [][StatusRank[overall'] >= StatusRank[overall]]_vars

====
